---- MODULE Spec2Model ----
(***************************************************************************)
(* xBotV5-core: the Bot lifecycle controller and its event handlers        *)
(* (src/xbotv5/core/bot.py) and the Signal dataclass                       *)
(* (src/xbotv5/core/signal.py).  Spec is the lifecycle, SpecEvents the     *)
(* event handlers, SpecSignal the Signal functions.                        *)
(*                                                                         *)
(* A Bot is driven by coroutines on one asyncio event loop.  A coroutine   *)
(* runs without interruption between two awaits that suspend, so every     *)
(* action below is the code from one suspension point to the next; the     *)
(* test of `while self._running:` belongs to the step that reaches it.     *)
(* The awaits of run() that can suspend are the user hooks (on_start,      *)
(* on_stop, on_error through the event bus), the event emissions, the      *)
(* processing step and the sleep; initialize() holds no await (setup() is  *)
(* a plain call), so `await self.initialize()` is part of the step that    *)
(* calls it.                                                               *)
(*                                                                         *)
(* Several run() calls may be made on one bot (nothing in run() refuses a  *)
(* second call); each call is an activation p \in Runs.                    *)
(*                                                                         *)
(* Exceptions are instances of Exception, the class `except Exception`     *)
(* catches.  Interpreter-exit signals (KeyboardInterrupt, SystemExit) are  *)
(* not modelled; inside `except Exception as e` the test of bot.py:338     *)
(* `isinstance(e, (KeyboardInterrupt, SystemExit))` is therefore false.    *)
(***************************************************************************)
EXTENDS Integers, Sequences, FiniteSets, TLC

\* Number of run() calls made on the bot.
MaxRuns == 2
\* Iterations of the trading loop started in all, over every run() call.
MaxIter == 2
\* initialize() calls made on the bot, directly or by run().
MaxInitCalls == 2

Runs == 1..MaxRuns

\* Values setup() may give the configuration fields.
Names == {"", "X"}
PairLists == {<<>>, <<"BTC/USDT">>}
Timeframes == {"", "1h"}

\* How an awaited hook, emission or step ends: it returns, or raises an Exception.
Outcomes == {"ok", "exc"}

\* Where the exception bound to `e` (or propagating out of run()) was raised.
Origins == {"on_start", "bot_started", "process", "on_error"}

VARIABLES
    name, pairs, timeframe,   \* self.name, self.pairs, self.timeframe
    initialized,              \* self._initialized
    running,                  \* self._running
    start_time,               \* self._start_time: "None" or "set"
    setup_calls,              \* invocations of the setup() hook
    init_calls,               \* initialize() calls made so far
    init_result,              \* how the latest initialize() call ended: <<kind, cause>>
    iterations,               \* iterations of the trading loop started so far
    pc,                       \* pc[p]: where activation p of run() is suspended
    err,                      \* err[p]: the exception p publishes or propagates (its origin)
    result,                   \* result[p]: how run() ended for its caller
    cnt,                      \* cnt[p]: hook invocations and lifecycle events of p
    stop_seen,                \* stop_seen[p]: stop() was called during the loop p is in
    positions,                \* self.positions: a dict, here a function on its keys
    total_trades,             \* self.total_trades
    winning_trades,           \* self.winning_trades
    losing_trades,            \* self.losing_trades
    total_pnl,                \* self.total_pnl
    order_hooks,              \* _handle_order_filled calls suspended in on_order_filled()
    events,                   \* events delivered to the bot's handlers so far
    order_events,             \* order_filled events delivered that carried an order
    closed,                   \* pnl of the positions position_closed events carried, in order
    hook_log,                 \* the hooks the event handlers have invoked, with their arguments
    last_event,               \* the event delivered last: its name, its payload, the bot's flags then
    call,                     \* the Signal construction under study: None or <<arguments>>
    signal,                   \* how that construction ended, and the Signal it made
    data,                     \* a dict for Signal.from_dict: None or <<dict>>
    data_origin,              \* where that dict came from: "none", "to_dict" or "foreign"
    restored,                 \* how Signal.from_dict(data) ended, and the Signal it made
    stop_requested            \* a caller that keeps note of its stop() calls has made one

cfgvars == <<name, pairs, timeframe, initialized, setup_calls, init_calls, init_result>>
lifevars == <<name, pairs, timeframe, initialized, running, start_time, setup_calls,
              init_calls, init_result, iterations, pc, err, result, cnt, stop_seen>>
statvars == <<positions, total_trades, winning_trades, losing_trades, total_pnl,
              order_hooks, events, order_events, closed, hook_log, last_event>>
sigvars == <<call, signal, data, data_origin, restored>>
vars == <<lifevars, statvars, sigvars, stop_requested>>

\* Python's None, and an optional value that is present.
None == <<>>
Some(x) == <<x>>

\* The points of run() inside `while self._running:`.
LoopPcs == {"process", "sleep", "iter_error"}

ZeroCnt == [on_start |-> 0, bot_started |-> 0, on_stop |-> 0, bot_stopped |-> 0]

\* The empty dict.
EmptyDict == [k \in {} |-> None]

\* No event has been delivered yet.
NoEvent == [name |-> "none", payload |-> None, initialized |-> FALSE, running |-> FALSE]

\* The outcome of a Signal construction that has not been made.
NotCalled == [status |-> "none", value |-> None]

\* Bot.__init__: the lifecycle fields.
InitLifecycle ==
    /\ name = "Unnamed Bot"
    /\ pairs = <<>>
    /\ timeframe = "1h"
    /\ initialized = FALSE
    /\ running = FALSE
    /\ start_time = "None"
    /\ setup_calls = 0
    /\ init_calls = 0
    /\ init_result = <<"none", "">>
    /\ iterations = 0
    /\ pc = [p \in Runs |-> "idle"]
    /\ err = [p \in Runs |-> "none"]
    /\ result = [p \in Runs |-> "none"]
    /\ cnt = [p \in Runs |-> ZeroCnt]
    /\ stop_seen = [p \in Runs |-> FALSE]
    /\ stop_requested = FALSE

\* Bot.__init__: the trading state and the statistics.
InitStatistics ==
    /\ positions = EmptyDict
    /\ total_trades = 0
    /\ winning_trades = 0
    /\ losing_trades = 0
    /\ total_pnl = 0
    /\ order_hooks = 0
    /\ events = 0
    /\ order_events = 0
    /\ closed = <<>>
    /\ hook_log = <<>>
    /\ last_event = NoEvent

\* No Signal is under construction.
InitNoSignal ==
    /\ call = None
    /\ signal = NotCalled
    /\ data = None
    /\ data_origin = "none"
    /\ restored = NotCalled

\* Bot.__init__
Init == InitLifecycle /\ InitStatistics /\ InitNoSignal

\* What one call of the setup() hook does: the fields it assigns, and whether it raises.
SetupBehaviours ==
    [raises : BOOLEAN, name : Names, pairs : PairLists, timeframe : Timeframes]

(***************************************************************************)
(* initialize() and its validation                                         *)
(***************************************************************************)

\* Variant of validate_config that omits the test of the trading pairs.
validate_config_noPairs(n, ps, tf) ==
    IF n = "" THEN "Bot name is required"
    ELSE IF tf = "" THEN "Timeframe is required"
    ELSE "ok"

\* Bot._validate_config: the ConfigurationError it raises, or "ok".
validate_config(n, ps, tf) ==
    IF n = "" THEN "Bot name is required"
    ELSE IF ps = <<>> THEN "At least one trading pair is required"
    ELSE IF tf = "" THEN "Timeframe is required"
    ELSE "ok"

\* Variant of initialize without the early return for an initialized bot.
initialize_noGuard(su) ==
    /\ init_calls < MaxInitCalls
    /\ init_calls' = init_calls + 1
    /\ setup_calls' = setup_calls + 1
    /\ name' = su.name
    /\ pairs' = su.pairs
    /\ timeframe' = su.timeframe
    /\ LET cause == IF su.raises THEN "setup() raised"
                    ELSE validate_config(su.name, su.pairs, su.timeframe)
       IN  /\ initialized' = (cause = "ok")
           /\ init_result' = IF cause = "ok" THEN <<"returned", "">>
                             ELSE <<"ConfigurationError", cause>>

\* Bot.initialize with setup() behaving as su.  Any exception of setup() or of
\* the validation is caught and raised again as a ConfigurationError whose
\* message holds the cause.
initialize(su) ==
    /\ init_calls < MaxInitCalls
    /\ init_calls' = init_calls + 1
    /\ IF initialized
       THEN /\ init_result' = <<"returned", "">>
            /\ UNCHANGED <<name, pairs, timeframe, initialized, setup_calls>>
       ELSE /\ setup_calls' = setup_calls + 1
            /\ name' = su.name
            /\ pairs' = su.pairs
            /\ timeframe' = su.timeframe
            /\ LET cause == IF su.raises THEN "setup() raised"
                            ELSE validate_config(su.name, su.pairs, su.timeframe)
               IN  /\ initialized' = (cause = "ok")
                   /\ init_result' = IF cause = "ok" THEN <<"returned", "">>
                                     ELSE <<"ConfigurationError", cause>>

\* A direct call of initialize().
InitializeCall(su) ==
    /\ initialize(su)
    /\ UNCHANGED <<running, start_time, iterations, pc, err, result, cnt, stop_seen>>
    /\ UNCHANGED <<statvars, sigvars, stop_requested>>

(***************************************************************************)
(* The event bus, as far as run() uses it                                  *)
(***************************************************************************)

\* EventBus.emit of a lifecycle event (bot_started, bot_stopped) by activation
\* p: the event is published and the handlers subscribed to it are awaited.
emit(c, p, ev) == [c EXCEPT ![p][ev] = @ + 1]

\* EventBus.emit("error", {"error": e}) by activation p, e raised at `origin`:
\* the event is published and delivered to Bot._handle_error, whose payload
\* test passes (e is an exception), so on_error(e) is invoked and awaited.
\* While pc[p] is "iter_error" or "fatal_error", the error event carrying
\* err[p] is the one p has on the bus; an exception of on_error() reaches the
\* emitter.
emit_error(p, origin) == err' = [err EXCEPT ![p] = origin]

(***************************************************************************)
(* run()                                                                   *)
(***************************************************************************)

\* The loop of run() is left, by its test or by an exception.
leave_loop(p) == stop_seen' = [stop_seen EXCEPT ![p] = FALSE]

\* Variant of cleanup that emits bot_stopped before it invokes on_stop().
cleanup_emitFirst(p) ==
    /\ pc' = [pc EXCEPT ![p] = "bot_stopped"]
    /\ cnt' = emit(cnt, p, "bot_stopped")

\* Bot._cleanup begins (the finally block of run()): on_stop() is invoked.
cleanup(p) ==
    /\ pc' = [pc EXCEPT ![p] = "on_stop"]
    /\ cnt' = [cnt EXCEPT ![p].on_stop = @ + 1]

\* The outer handler of run() (except Exception as e): the exception raised
\* at `origin` is logged and published as an error event.
fatal_error(p, origin) ==
    /\ pc' = [pc EXCEPT ![p] = "fatal_error"]
    /\ emit_error(p, origin)
    /\ leave_loop(p)
    /\ UNCHANGED cnt

\* run() ends for its caller: normally, or with the exception still propagating.
finish(p) ==
    /\ pc' = [pc EXCEPT ![p] = "done"]
    /\ result' = [result EXCEPT ![p] = IF err[p] = "none" THEN "returned" ELSE "raised"]

\* `while self._running:` the next iteration starts with the processing step,
\* or the loop is left and the finally block runs.
loop_test(p) ==
    IF running
    THEN /\ iterations < MaxIter
         /\ iterations' = iterations + 1
         /\ pc' = [pc EXCEPT ![p] = "process"]
         /\ UNCHANGED <<cnt, stop_seen>>
    ELSE /\ cleanup(p)
         /\ leave_loop(p)
         /\ UNCHANGED iterations

\* Variant of run that sets the running flag before the initialization.
run_flagBeforeInit(p, su) ==
    /\ pc[p] = "idle"
    /\ IF ~initialized THEN initialize(su) ELSE UNCHANGED cfgvars
    /\ running' = TRUE
    /\ IF initialized'
       THEN /\ start_time' = "set"
            /\ pc' = [pc EXCEPT ![p] = "on_start"]
            /\ cnt' = [cnt EXCEPT ![p].on_start = @ + 1]
            /\ UNCHANGED result
       ELSE /\ pc' = [pc EXCEPT ![p] = "done"]
            /\ result' = [result EXCEPT ![p] = "ConfigurationError"]
            /\ UNCHANGED <<start_time, cnt>>
    /\ UNCHANGED <<iterations, err, stop_seen>>
    /\ UNCHANGED <<statvars, sigvars, stop_requested>>

\* Variant of run that initializes inside the try block, so that a failed
\* initialization runs the finally block.
run_initInTry(p, su) ==
    /\ pc[p] = "idle"
    /\ IF ~initialized THEN initialize(su) ELSE UNCHANGED cfgvars
    /\ IF initialized'
       THEN /\ running' = TRUE
            /\ start_time' = "set"
            /\ pc' = [pc EXCEPT ![p] = "on_start"]
            /\ cnt' = [cnt EXCEPT ![p].on_start = @ + 1]
       ELSE /\ cleanup(p)
            /\ UNCHANGED <<running, start_time>>
    /\ UNCHANGED <<iterations, err, result, stop_seen>>
    /\ UNCHANGED <<statvars, sigvars, stop_requested>>

\* run() is called: initialization if needed, then the running flag, the start
\* time and the on_start() hook.
run(p, su) ==
    /\ pc[p] = "idle"
    /\ IF ~initialized THEN initialize(su) ELSE UNCHANGED cfgvars
    /\ IF initialized'
       THEN /\ running' = TRUE
            /\ start_time' = "set"
            /\ pc' = [pc EXCEPT ![p] = "on_start"]
            /\ cnt' = [cnt EXCEPT ![p].on_start = @ + 1]
            /\ UNCHANGED result
       ELSE /\ pc' = [pc EXCEPT ![p] = "done"]
            /\ result' = [result EXCEPT ![p] = "ConfigurationError"]
            /\ UNCHANGED <<running, start_time, cnt>>
    /\ UNCHANGED <<iterations, err, stop_seen>>
    /\ UNCHANGED <<statvars, sigvars, stop_requested>>

\* on_start() ends: bot_started is emitted, or the exception reaches the outer handler.
OnStartDone(p, o) ==
    /\ pc[p] = "on_start"
    /\ IF o = "ok"
       THEN /\ pc' = [pc EXCEPT ![p] = "bot_started"]
            /\ cnt' = emit(cnt, p, "bot_started")
            /\ UNCHANGED <<err, stop_seen>>
       ELSE fatal_error(p, "on_start")
    /\ UNCHANGED <<cfgvars, running, start_time, iterations, result>>
    /\ UNCHANGED <<statvars, sigvars, stop_requested>>

\* The bot_started emission ends: the loop is entered with its first test, or
\* the exception reaches the outer handler.
BotStartedDone(p, o) ==
    /\ pc[p] = "bot_started"
    /\ IF o = "ok"
       THEN /\ loop_test(p)
            /\ UNCHANGED err
       ELSE /\ fatal_error(p, "bot_started")
            /\ UNCHANGED iterations
    /\ UNCHANGED <<cfgvars, running, start_time, result>>
    /\ UNCHANGED <<statvars, sigvars, stop_requested>>

\* Variant of ProcessDone whose per-iteration handler breaks out of the loop
\* instead of publishing the exception.
ProcessDone_breaks(p, o) ==
    /\ pc[p] = "process"
    /\ IF o = "ok"
       THEN /\ pc' = [pc EXCEPT ![p] = "sleep"]
            /\ UNCHANGED <<cnt, stop_seen>>
       ELSE /\ cleanup(p)
            /\ leave_loop(p)
    /\ UNCHANGED <<cfgvars, running, start_time, iterations, err, result>>
    /\ UNCHANGED <<statvars, sigvars, stop_requested>>

\* _process_market_data() ends: the sleep starts, or the per-iteration handler
\* logs the exception and publishes it as an error event.
ProcessDone(p, o) ==
    /\ pc[p] = "process"
    /\ IF o = "ok"
       THEN /\ pc' = [pc EXCEPT ![p] = "sleep"]
            /\ UNCHANGED err
       ELSE /\ pc' = [pc EXCEPT ![p] = "iter_error"]
            /\ emit_error(p, "process")
    /\ UNCHANGED <<cfgvars, running, start_time, iterations, result, cnt, stop_seen>>
    /\ UNCHANGED <<statvars, sigvars, stop_requested>>

\* asyncio.sleep(0.1) ends: the iteration is complete and the loop tests the flag.
SleepDone(p) ==
    /\ pc[p] = "sleep"
    /\ loop_test(p)
    /\ UNCHANGED <<cfgvars, running, start_time, err, result>>
    /\ UNCHANGED <<statvars, sigvars, stop_requested>>

\* The error emission of the per-iteration handler ends: back to the loop test
\* (e is no KeyboardInterrupt or SystemExit), or its exception leaves the loop
\* and reaches the outer handler.
IterErrorDone(p, o) ==
    /\ pc[p] = "iter_error"
    /\ IF o = "ok"
       THEN /\ err' = [err EXCEPT ![p] = "none"]
            /\ loop_test(p)
       ELSE /\ fatal_error(p, "on_error")
            /\ UNCHANGED iterations
    /\ UNCHANGED <<cfgvars, running, start_time, result>>
    /\ UNCHANGED <<statvars, sigvars, stop_requested>>

\* Variant of FatalErrorDone without the finally block: an exception of the
\* outer handler's emission ends run() at once.
FatalErrorDone_noFinally(p, o) ==
    /\ pc[p] = "fatal_error"
    /\ IF o = "ok"
       THEN /\ err' = [err EXCEPT ![p] = "none"]
            /\ cleanup(p)
            /\ UNCHANGED result
       ELSE /\ err' = [err EXCEPT ![p] = "on_error"]
            /\ pc' = [pc EXCEPT ![p] = "done"]
            /\ result' = [result EXCEPT ![p] = "raised"]
            /\ UNCHANGED cnt
    /\ UNCHANGED <<cfgvars, running, start_time, iterations, stop_seen>>
    /\ UNCHANGED <<statvars, sigvars, stop_requested>>

\* The error emission of the outer handler ends: the finally block runs, with
\* the emission's exception propagating if it raised.
FatalErrorDone(p, o) ==
    /\ pc[p] = "fatal_error"
    /\ err' = [err EXCEPT ![p] = IF o = "ok" THEN "none" ELSE "on_error"]
    /\ cleanup(p)
    /\ UNCHANGED <<cfgvars, running, start_time, iterations, result, stop_seen>>
    /\ UNCHANGED <<statvars, sigvars, stop_requested>>

\* on_stop() ends: bot_stopped is emitted, or _cleanup catches and logs the
\* exception and returns.
OnStopDone(p, o) ==
    /\ pc[p] = "on_stop"
    /\ IF o = "ok"
       THEN /\ pc' = [pc EXCEPT ![p] = "bot_stopped"]
            /\ cnt' = emit(cnt, p, "bot_stopped")
            /\ UNCHANGED result
       ELSE /\ finish(p)
            /\ UNCHANGED cnt
    /\ UNCHANGED <<cfgvars, running, start_time, iterations, err, stop_seen>>
    /\ UNCHANGED <<statvars, sigvars, stop_requested>>

\* The bot_stopped emission ends (an exception of it is caught and logged by
\* _cleanup): run() ends.
BotStoppedDone(p, o) ==
    /\ pc[p] = "bot_stopped"
    /\ finish(p)
    /\ UNCHANGED <<cfgvars, running, start_time, iterations, err, cnt, stop_seen>>
    /\ UNCHANGED <<statvars, sigvars, stop_requested>>

\* The body of stop(): the running flag is cleared; nothing else of the bot
\* is touched.
stop_flag ==
    /\ running' = FALSE
    /\ stop_seen' = [p \in Runs |-> stop_seen[p] \/ pc[p] \in LoopPcs]
    /\ UNCHANGED <<cfgvars, start_time, iterations, pc, err, result, cnt>>
    /\ UNCHANGED <<statvars, sigvars>>

\* stop() is called.
stop == stop_flag /\ UNCHANGED stop_requested

\* stop() is called by a caller that keeps note of the request.
stop_noted == stop_flag /\ stop_requested' = TRUE

Next ==
    \/ \E su \in SetupBehaviours : InitializeCall(su)
    \/ \E p \in Runs, su \in SetupBehaviours : run(p, su)
    \/ \E p \in Runs, o \in Outcomes : OnStartDone(p, o)
    \/ \E p \in Runs, o \in Outcomes : BotStartedDone(p, o)
    \/ \E p \in Runs, o \in Outcomes : ProcessDone(p, o)
    \/ \E p \in Runs : SleepDone(p)
    \/ \E p \in Runs, o \in Outcomes : IterErrorDone(p, o)
    \/ \E p \in Runs, o \in Outcomes : FatalErrorDone(p, o)
    \/ \E p \in Runs, o \in Outcomes : OnStopDone(p, o)
    \/ \E p \in Runs, o \in Outcomes : BotStoppedDone(p, o)
    \/ stop

Spec == Init /\ [][Next]_vars

TypeOK ==
    /\ name \in Names \cup {"Unnamed Bot"}
    /\ pairs \in PairLists
    /\ timeframe \in Timeframes
    /\ initialized \in BOOLEAN /\ running \in BOOLEAN
    /\ start_time \in {"None", "set"}
    /\ init_result[1] \in {"none", "returned", "ConfigurationError"}
    /\ setup_calls \in 0..MaxInitCalls /\ init_calls \in 0..MaxInitCalls
    /\ iterations \in 0..MaxIter
    /\ \A p \in Runs :
        /\ pc[p] \in {"idle", "on_start", "bot_started", "process", "sleep",
                      "iter_error", "fatal_error", "on_stop", "bot_stopped", "done"}
        /\ err[p] \in Origins \cup {"none"}
        /\ result[p] \in {"none", "returned", "raised", "ConfigurationError"}
        /\ stop_seen[p] \in BOOLEAN

(***************************************************************************)
(* Properties                                                              *)
(***************************************************************************)

\* Activation p of run() got past the initialization: it set the running flag
\* and invoked on_start().
Started(p) == cnt[p].on_start = 1

\* Activation p of run() has ended after having got past the initialization.
Ended(p) == pc[p] = "done" /\ Started(p)

\* C1: in every reachable state the running flag is set only if the
\* initialized flag is set.
C1_RunningOnlyIfInitialized == running => initialized

\* C1 witness: the loop of a run() call is iterating on an initialized bot
\* after an earlier run() call failed to initialize it.
C1_Witness ==
    /\ running /\ initialized
    /\ \E p, q \in Runs : pc[p] = "process" /\ result[q] = "ConfigurationError"

\* C2: a run() call that got past the initialization invokes on_stop() exactly
\* once before it ends: never before the loop is left, once from then on.
C2_OnStopExactlyOnce ==
    \A p \in Runs :
        /\ cnt[p].on_stop <= 1
        /\ pc[p] \in {"idle", "on_start", "bot_started", "fatal_error"} \cup LoopPcs
              => cnt[p].on_stop = 0
        /\ Ended(p) => cnt[p].on_stop = 1

\* C2 witness: one run() call has ended through stop() and a normal loop exit,
\* another through an exception of on_start() whose publication raised too.
C2_Witness ==
    \E p, q \in Runs :
        /\ Ended(p) /\ result[p] = "returned" /\ cnt[p].bot_stopped = 1
        /\ Ended(q) /\ result[q] = "raised" /\ cnt[q].bot_started = 0
        /\ cnt[p].on_stop = 1 /\ cnt[q].on_stop = 1

\* C3 as claimed: a run() call that got past the initialization has emitted
\* bot_stopped exactly once when it ends, also when a user hook raised.
C3_BotStoppedExactlyOnce ==
    \A p \in Runs : Ended(p) => cnt[p].bot_stopped = 1

\* C4 as claimed: once stop() has been called during the loop of a run() call,
\* that loop starts no further iteration.
C4_NoIterationAfterStop ==
    [][\A p \in Runs : stop_seen[p] /\ pc[p] # "process" => pc'[p] # "process"]_vars

\* C5: once initialize() has succeeded, no step invokes setup() or changes the
\* configuration or the initialized flag, and a later initialize() call
\* changes nothing of the bot.
C5_InitializeIdempotent ==
    [][initialized =>
          /\ setup_calls' = setup_calls
          /\ UNCHANGED <<name, pairs, timeframe, initialized>>
          /\ init_calls' # init_calls =>
                /\ init_result' = <<"returned", "">>
                /\ UNCHANGED <<running, start_time, iterations, pc, err, result, cnt>>
      ]_vars

\* C5 witness: initialize() has been called again after it succeeded, and
\* setup() has been invoked once.
C5_Witness ==
    initialized /\ init_calls = 2 /\ setup_calls = 1 /\ init_result = <<"returned", "">>

\* C6: a step that runs the body of initialize() sets initialized exactly when
\* it succeeds; it succeeds exactly when setup() returned and name, pairs and
\* timeframe are non-empty, and fails with a ConfigurationError otherwise; no
\* other step changes the initialized flag.
C6_InitializedOnlyOnSuccess ==
    [][/\ setup_calls' # setup_calls =>
            LET valid == name' # "" /\ pairs' # <<>> /\ timeframe' # ""
            IN  /\ initialized' <=> init_result' = <<"returned", "">>
                /\ ~initialized' <=> init_result'[1] = "ConfigurationError"
                /\ initialized' => valid
                /\ (valid /\ ~initialized') => init_result'[2] = "setup() raised"
       /\ initialized' # initialized => setup_calls' # setup_calls
      ]_vars

\* C6 witness: initialize() has failed on an empty list of pairs and then
\* succeeded with name "X", pairs ["BTC/USDT"] and timeframe "1h".
C6_Witness ==
    /\ initialized /\ setup_calls = 2
    /\ name = "X" /\ pairs = <<"BTC/USDT">> /\ timeframe = "1h"

\* C7: a run() call whose initialization fails ends with the
\* ConfigurationError and has no lifecycle effect: the running flag stays
\* false, the start time and every other activation are untouched, and none
\* of on_start(), bot_started, on_stop() and bot_stopped occurs.
C7_FailedInitNoLifecycle ==
    /\ [](\A p \in Runs : result[p] = "ConfigurationError" =>
              pc[p] = "done" /\ cnt[p] = ZeroCnt /\ err[p] = "none")
    /\ [][\A p \in Runs :
            (pc[p] = "idle" /\ pc'[p] # "idle" /\ ~initialized') =>
                /\ result'[p] = "ConfigurationError"
                /\ init_result'[1] = "ConfigurationError"
                /\ ~running /\ ~running'
                /\ UNCHANGED <<start_time, iterations, err, cnt, stop_seen>>
                /\ \A q \in Runs \ {p} : pc'[q] = pc[q] /\ result'[q] = result[q]
         ]_vars

\* C7 witness: a run() call has failed with a ConfigurationError on a bot that
\* has never been started.
C7_Witness ==
    /\ \E p \in Runs : result[p] = "ConfigurationError"
    /\ ~initialized /\ ~running /\ start_time = "None"
    /\ init_result = <<"ConfigurationError", "At least one trading pair is required">>

\* C8 as claimed: an exception of the processing step does not end the loop;
\* after its publication the loop ends only if the running flag has been
\* cleared.
C8_LoopSurvivesProcessError ==
    [][\A p \in Runs :
          (pc[p] = "iter_error" /\ pc'[p] \notin LoopPcs) => ~running
      ]_vars

\* C8 amended: an exception of the processing step is caught and published as
\* one error event carrying it (no other step publishes it); when that
\* publication ends, the loop starts another iteration if the running flag is
\* set, and the loop ends only if the flag has been cleared or the publication
\* itself raised (that exception reaches the outer handler).
C8_LoopSurvivesUnlessPublicationRaises ==
    [][\A p \in Runs :
          /\ (pc[p] = "process" /\ pc'[p] # "process") =>
                \/ pc'[p] = "sleep" /\ err'[p] = "none"
                \/ pc'[p] = "iter_error" /\ err'[p] = "process"
          /\ (pc[p] = "iter_error" /\ pc'[p] # "iter_error") =>
                \/ pc'[p] = "process" /\ err'[p] = "none" /\ running
                \/ pc'[p] = "on_stop" /\ err'[p] = "none" /\ ~running
                \/ pc'[p] = "fatal_error" /\ err'[p] = "on_error"
          /\ (pc'[p] = "iter_error" /\ pc[p] # "iter_error") => pc[p] = "process"
      ]_vars

\* C8 witness: the processing step of a loop's first iteration raised and the
\* error event carrying its exception is being delivered, with the running
\* flag set, no stop() requested and a further iteration possible.
C8_Witness ==
    \E p \in Runs :
        /\ pc[p] = "iter_error" /\ err[p] = "process"
        /\ running /\ ~stop_seen[p] /\ iterations < MaxIter

\* C9 as claimed: once the initialization has succeeded, run() never ends with
\* an exception propagating to its caller.
C9_RunNeverRaises ==
    \A p \in Runs : result[p] # "raised"

\* C10 as claimed: when a run() call that had set the running flag ends, and no
\* other run() call is active, the bot is stopped: is_running is false.
C10_StoppedWhenRunEnds ==
    [][\A p \in Runs :
          (pc[p] # "done" /\ pc'[p] = "done" /\ Started(p)
             /\ \A q \in Runs \ {p} : pc[q] \in {"idle", "done"}) => ~running'
      ]_vars

\* C11 as claimed: at most one run loop is active on a bot at any time; two
\* run() activations are never both inside the trading loop.
C11_OneActiveLoop ==
    \A p, q \in Runs : (pc[p] \in LoopPcs /\ pc[q] \in LoopPcs) => p = q

\* C19 as claimed: in one run loop the sleep lies between any two consecutive
\* processing steps: a loop that goes on to its next processing step does so
\* from the sleep, also when the earlier processing step raised.
C19_SleepBetweenIterations ==
    [][\A p \in Runs :
          (pc[p] \in LoopPcs /\ pc[p] # "process" /\ pc'[p] = "process")
              => pc[p] = "sleep"
      ]_vars

\* C20: within one run() call, on_start() has returned before bot_started is
\* emitted, the bot_started emission has ended before the first processing
\* step, no part of an iteration follows on_stop(), on_stop() has returned
\* before bot_stopped is emitted, and on_start() and bot_started occur at most
\* once.
C20_LifecycleOrder ==
    \A p \in Runs :
        /\ cnt[p].on_start <= 1 /\ cnt[p].bot_started <= 1
        /\ pc[p] = "idle" => cnt[p] = ZeroCnt
        /\ cnt[p].bot_started = 1 => (cnt[p].on_start = 1 /\ pc[p] # "on_start")
        /\ pc[p] \in LoopPcs => (cnt[p].bot_started = 1 /\ cnt[p].on_stop = 0)
        /\ cnt[p].on_stop >= 1 => pc[p] \in {"on_stop", "bot_stopped", "done"}
        /\ cnt[p].bot_stopped >= 1 =>
              (cnt[p].on_stop = 1 /\ pc[p] \in {"bot_stopped", "done"})

\* C20 witness: a single run() call went through on_start(), bot_started, two
\* iterations, on_stop() and bot_stopped, and has ended.
C20_Witness ==
    \E p \in Runs :
        /\ pc[p] = "done" /\ result[p] = "returned" /\ iterations = 2
        /\ cnt[p] = [on_start |-> 1, bot_started |-> 1, on_stop |-> 1, bot_stopped |-> 1]
        /\ \A q \in Runs \ {p} : pc[q] = "idle"

(***************************************************************************)
(* The event handlers of the bot (bot.py:229-259) and its position         *)
(* queries.  The handlers of position_opened and position_closed hold no   *)
(* await and are one step each; the handler of order_filled suspends in    *)
(* the on_order_filled() hook and is two steps.  Amounts (pnl) are whole   *)
(* numbers of the smallest currency unit.                                  *)
(***************************************************************************)

\* Events delivered to the handlers in one behaviour.
MaxEvents == 3

\* position.symbol, position.pnl and the Position objects events carry.
Symbols == {"BTC/USDT", "ETH/USDT"}
Pnls == {-20, 0, 50}
Positions == [symbol : Symbols, pnl : Pnls]
\* The Order objects events carry (opaque to the bot).
Orders == {"order"}

\* The exceptions error events carry.
Errors == {"exc"}

\* event.data.get("order") and event.data.get("position"): None when the key is absent.
ErrorPayloads == {None} \cup {Some(e) : e \in Errors}
OrderPayloads == {None} \cup {Some(o) : o \in Orders}
PositionPayloads == {None} \cup {Some(x) : x \in Positions}

\* The sum of a sequence of amounts.
RECURSIVE Sum(_)
Sum(s) == IF s = <<>> THEN 0 ELSE Head(s) + Sum(Tail(s))

\* Variant of dict_set that keeps no other key.
dict_set_alone(d, k, v) == [x \in {k} |-> v]

\* d[k] = v
dict_set(d, k, v) == [x \in DOMAIN d \cup {k} |-> IF x = k THEN v ELSE d[x]]

\* del d[k]
dict_del(d, k) == [x \in DOMAIN d \ {k} |-> d[x]]

\* Variant of is_winner that counts a pnl of zero as a win.
is_winner_orZero(pnl) == pnl >= 0

\* The test `position.pnl > 0` of Bot._handle_position_closed.
is_winner(pnl) == pnl > 0

\* Bot.has_position: a falsy symbol (None or "", here "") asks for any position.
has_position(ps, symbol) ==
    IF symbol # "" THEN symbol \in DOMAIN ps ELSE Cardinality(DOMAIN ps) > 0

\* Bot.get_position: self.positions.get(symbol)
get_position(ps, symbol) == IF symbol \in DOMAIN ps THEN Some(ps[symbol]) ELSE None

\* The event bus invokes a handler of the bot with an event; last_event notes
\* the event and the lifecycle flags of the bot when it arrived.
delivered(nm, payload) ==
    /\ events < MaxEvents
    /\ events' = events + 1
    /\ last_event' = [name |-> nm, payload |-> payload,
                      initialized |-> initialized, running |-> running]

\* Bot._handle_order_filled up to its await: on_order_filled(order) is invoked.
handle_order_filled(order) ==
    /\ delivered("order_filled", order)
    /\ IF order # None
          THEN /\ order_hooks' = order_hooks + 1
               /\ order_events' = order_events + 1
               /\ hook_log' = Append(hook_log, [hook |-> "on_order_filled", arg |-> order[1]])
          ELSE UNCHANGED <<order_hooks, order_events, hook_log>>
    /\ UNCHANGED <<positions, total_trades, winning_trades, losing_trades, total_pnl, closed>>
    /\ UNCHANGED <<lifevars, sigvars, stop_requested>>

\* on_order_filled() ends: if it returned, the handler counts the trade; if it
\* raised, the exception leaves the handler before the increment.
OnOrderFilledDone(o) ==
    /\ order_hooks > 0
    /\ order_hooks' = order_hooks - 1
    /\ total_trades' = IF o = "ok" THEN total_trades + 1 ELSE total_trades
    /\ UNCHANGED <<positions, winning_trades, losing_trades, total_pnl, events,
                   order_events, closed, hook_log, last_event>>
    /\ UNCHANGED <<lifevars, sigvars, stop_requested>>

\* Bot._handle_position_opened
handle_position_opened(position) ==
    /\ delivered("position_opened", position)
    /\ IF position # None
          THEN positions' = dict_set(positions, position[1].symbol, position[1])
          ELSE UNCHANGED positions
    /\ UNCHANGED <<total_trades, winning_trades, losing_trades, total_pnl,
                   order_hooks, order_events, closed, hook_log>>
    /\ UNCHANGED <<lifevars, sigvars, stop_requested>>

\* Variant of handle_position_closed that updates the statistics only for a
\* position whose symbol is in the mapping.
handle_position_closed_ifHeld(position) ==
    /\ delivered("position_closed", position)
    /\ IF position # None
          THEN LET pos == position[1] IN
               /\ IF pos.symbol \in DOMAIN positions
                     THEN /\ IF is_winner(pos.pnl)
                                THEN winning_trades' = winning_trades + 1 /\ UNCHANGED losing_trades
                                ELSE losing_trades' = losing_trades + 1 /\ UNCHANGED winning_trades
                          /\ total_pnl' = total_pnl + pos.pnl
                          /\ positions' = dict_del(positions, pos.symbol)
                     ELSE UNCHANGED <<winning_trades, losing_trades, total_pnl, positions>>
               /\ closed' = Append(closed, pos.pnl)
          ELSE UNCHANGED <<winning_trades, losing_trades, total_pnl, positions, closed>>
    /\ UNCHANGED <<total_trades, order_hooks, order_events, hook_log>>
    /\ UNCHANGED <<lifevars, sigvars, stop_requested>>

\* Bot._handle_position_closed
handle_position_closed(position) ==
    /\ delivered("position_closed", position)
    /\ IF position # None
          THEN LET pos == position[1] IN
               /\ IF is_winner(pos.pnl)
                     THEN winning_trades' = winning_trades + 1 /\ UNCHANGED losing_trades
                     ELSE losing_trades' = losing_trades + 1 /\ UNCHANGED winning_trades
               /\ total_pnl' = total_pnl + pos.pnl
               /\ positions' = IF pos.symbol \in DOMAIN positions
                                  THEN dict_del(positions, pos.symbol)
                                  ELSE positions
               /\ closed' = Append(closed, pos.pnl)
          ELSE UNCHANGED <<winning_trades, losing_trades, total_pnl, positions, closed>>
    /\ UNCHANGED <<total_trades, order_hooks, order_events, hook_log>>
    /\ UNCHANGED <<lifevars, sigvars, stop_requested>>

\* Variant of handle_error without the test of the payload.
handle_error_noTest(error) ==
    /\ delivered("error", error)
    /\ hook_log' = Append(hook_log, [hook |-> "on_error",
                                     arg |-> IF error # None THEN error[1] ELSE "None"])
    /\ UNCHANGED <<positions, total_trades, winning_trades, losing_trades, total_pnl,
                   order_hooks, order_events, closed>>
    /\ UNCHANGED <<lifevars, sigvars, stop_requested>>

\* Bot._handle_error: on_error(error) is invoked and awaited; the bot keeps
\* nothing of how it ends.
handle_error(error) ==
    /\ delivered("error", error)
    /\ IF error # None
          THEN hook_log' = Append(hook_log, [hook |-> "on_error", arg |-> error[1]])
          ELSE UNCHANGED hook_log
    /\ UNCHANGED <<positions, total_trades, winning_trades, losing_trades, total_pnl,
                   order_hooks, order_events, closed>>
    /\ UNCHANGED <<lifevars, sigvars, stop_requested>>

NextEvents ==
    \/ \E error \in ErrorPayloads : handle_error(error)
    \/ \E order \in OrderPayloads : handle_order_filled(order)
    \/ \E o \in Outcomes : OnOrderFilledDone(o)
    \/ \E position \in PositionPayloads : handle_position_opened(position)
    \/ \E position \in PositionPayloads : handle_position_closed(position)

\* The bot as its event handlers see it: events arrive, no run() call is made.
SpecEvents == Init /\ [][NextEvents]_vars

\* C12 as claimed: total_trades counts the order_filled events delivered with
\* an order, one for each, once no handler is waiting in on_order_filled();
\* also when the hook raised.
C12_TotalTradesCountsOrders ==
    order_hooks = 0 => total_trades = order_events

\* C13: of the positions the position_closed events carried, winning_trades
\* counts those with pnl > 0, losing_trades those with pnl = 0 or pnl < 0 (so
\* each event adds 1 to exactly one of the two), and total_pnl is the sum of
\* their pnl.
C13_ClosedPositionStatistics ==
    /\ winning_trades = Cardinality({i \in DOMAIN closed : closed[i] > 0})
    /\ losing_trades = Cardinality({i \in DOMAIN closed : closed[i] <= 0})
    /\ winning_trades + losing_trades = Len(closed)
    /\ total_pnl = Sum(closed)

\* C13 witness: a winning, a zero and a losing position have been closed.
C13_Witness ==
    /\ Len(closed) = 3
    /\ {closed[i] : i \in DOMAIN closed} = Pnls
    /\ winning_trades = 1 /\ losing_trades = 2 /\ total_pnl = 30

\* C14: the mapping holds every position under its own symbol, one per symbol;
\* after a position_opened event for s, has_position(s) holds and
\* get_position(s) is the position the event carried; after a position_closed
\* event for s, has_position(s) is false; the entries of every other symbol
\* are as before the event.
C14_PositionsBySymbol ==
    [][events' # events =>
          LET e == last_event' IN
          /\ \A s \in DOMAIN positions' : positions'[s].symbol = s
          /\ (e.name = "position_opened" /\ e.payload # None) =>
                LET pos == e.payload[1] IN
                /\ has_position(positions', pos.symbol)
                /\ get_position(positions', pos.symbol) = Some(pos)
                /\ \A t \in Symbols \ {pos.symbol} :
                      get_position(positions', t) = get_position(positions, t)
          /\ (e.name = "position_closed" /\ e.payload # None) =>
                LET pos == e.payload[1] IN
                /\ ~has_position(positions', pos.symbol)
                /\ get_position(positions', pos.symbol) = None
                /\ \A t \in Symbols \ {pos.symbol} :
                      get_position(positions', t) = get_position(positions, t)
      ]_vars

\* C14 witness: positions of two symbols were opened, the first was opened
\* again with another position, and the position of the second was closed
\* while the first stayed.
C14_Witness ==
    \E s, t \in Symbols :
        /\ s # t
        /\ last_event.name = "position_closed" /\ last_event.payload # None
        /\ last_event.payload[1].symbol = t
        /\ ~has_position(positions, t)
        /\ has_position(positions, s) /\ get_position(positions, s) = Some([symbol |-> s, pnl |-> 50])
        /\ has_position(positions, "")

(***************************************************************************)
(* Signal and SignalType (src/xbotv5/core/signal.py).  Signal is a         *)
(* dataclass of pure functions; SpecSignal draws the arguments of one      *)
(* construction, or one dict from outside, and applies the functions to    *)
(* them.  A confidence is a whole number of tenths (10 is 1.0); a datetime *)
(* is its seconds and microseconds; an ISO-8601 string is the sequence of  *)
(* the numbers it spells out.                                              *)
(***************************************************************************)

\* The members of SignalType by name, with their values.
SignalTypeValues ==
    [BUY |-> "buy", SELL |-> "sell", HOLD |-> "hold", CLOSE |-> "close",
     STOP_LOSS |-> "stop_loss", TAKE_PROFIT |-> "take_profit"]
SignalTypes == DOMAIN SignalTypeValues

\* A call that returned x, and a call that raised exception e.
Ok(x) == [status |-> "ok", value |-> Some(x)]
Raised(e) == [status |-> e, value |-> None]

\* Variant of SignalType that also finds a member by its name.
SignalType_orName(v) ==
    IF \E m \in SignalTypes : SignalTypeValues[m] = v \/ m = v
        THEN Ok(CHOOSE m \in SignalTypes : SignalTypeValues[m] = v \/ m = v)
        ELSE Raised("ValueError")

\* SignalType(v): the member whose value is v; a ValueError if there is none.
SignalType(v) ==
    IF \E m \in SignalTypes : SignalTypeValues[m] = v
        THEN Ok(CHOOSE m \in SignalTypes : SignalTypeValues[m] = v)
        ELSE Raised("ValueError")

\* The confidence a Signal has when none is given (1.0).
DefaultConfidence == 10
\* The confidences given to a constructor, in tenths.
Confidences == {-1, 0, 5, 10, 11}
\* The datetimes given to a constructor or read from the clock.
Datetimes == [sec : {1}, micro : {0, 5}]
\* The metadata dicts given to a constructor, as sets of <<key, value>>.
Metadatas == {{}, {<<"k", "v">>}}
\* The amounts given as price, quantity, stop_loss and take_profit.
Amounts == {100}

Optional(S) == {None} \cup {Some(x) : x \in S}

\* The keyword arguments of a construction; None is an argument left out.
Kwargs ==
    [confidence : Optional(Confidences), price : Optional(Amounts),
     quantity : Optional(Amounts), stop_loss : Optional(Amounts),
     take_profit : Optional(Amounts), metadata : Optional(Metadatas),
     timestamp : Optional(Datetimes), source : Optional({"feed"})]

\* The constructions: Signal(type, symbol, ...) and the four class methods.
Calls ==
    [via : {"Signal"}, type : Optional(SignalTypes) \ {None}, symbol : {"BTC/USDT"}, kw : Kwargs]
    \cup [via : {"buy", "sell", "hold", "close"}, type : {None}, symbol : {"BTC/USDT"}, kw : Kwargs]

\* datetime.isoformat(): the microseconds are written only when they are not zero.
isoformat(dt) == IF dt.micro = 0 THEN <<dt.sec>> ELSE <<dt.sec, dt.micro>>

\* datetime.fromisoformat()
fromisoformat(str) == [sec |-> str[1], micro |-> IF Len(str) = 1 THEN 0 ELSE str[2]]

\* Variant of post_init that does not test the lower end of the range.
post_init_noLowerBound(self, now) ==
    LET s == [self EXCEPT
                 !.metadata = IF @ = None THEN Some({}) ELSE @,
                 !.timestamp = IF @ = None THEN Some(now) ELSE @]
    IN IF ~(s.confidence <= 10) THEN Raised("ValueError") ELSE Ok(s)

\* Signal.__post_init__; now is what datetime.utcnow() returns.
post_init(self, now) ==
    LET s == [self EXCEPT
                 !.metadata = IF @ = None THEN Some({}) ELSE @,
                 !.timestamp = IF @ = None THEN Some(now) ELSE @]
    IN IF ~(0 <= s.confidence /\ s.confidence <= 10) THEN Raised("ValueError") ELSE Ok(s)

\* Signal(type=..., symbol=..., **kw): the dataclass fills the fields, with
\* their defaults for the arguments left out, then runs __post_init__.
Signal(type, symbol, kw, now) ==
    post_init([type |-> type, symbol |-> symbol,
               confidence |-> IF kw.confidence = None THEN DefaultConfidence ELSE kw.confidence[1],
               price |-> kw.price, quantity |-> kw.quantity,
               stop_loss |-> kw.stop_loss, take_profit |-> kw.take_profit,
               metadata |-> kw.metadata, timestamp |-> kw.timestamp,
               source |-> IF kw.source = None THEN "unknown" ELSE kw.source[1]],
              now)

\* Signal.buy, Signal.sell, Signal.hold, Signal.close
buy(symbol, kw, now) == Signal("BUY", symbol, kw, now)
sell(symbol, kw, now) == Signal("SELL", symbol, kw, now)
hold(symbol, kw, now) == Signal("HOLD", symbol, kw, now)
close(symbol, kw, now) == Signal("CLOSE", symbol, kw, now)

\* Signal.is_actionable
is_actionable(self) == self.type # "HOLD"

\* Signal.is_entry_signal
is_entry_signal(self) == self.type = "BUY"

\* Variant of is_exit_signal that leaves TAKE_PROFIT out.
is_exit_signal_noTakeProfit(self) == self.type \in {"SELL", "CLOSE", "STOP_LOSS"}

\* Signal.is_exit_signal
is_exit_signal(self) == self.type \in {"SELL", "CLOSE", "STOP_LOSS", "TAKE_PROFIT"}

\* Variant of to_dict that writes the name of the type, not its value.
to_dict_typeName(self) ==
    [type |-> Some(self.type), symbol |-> self.symbol,
     confidence |-> self.confidence, price |-> self.price, quantity |-> self.quantity,
     stop_loss |-> self.stop_loss, take_profit |-> self.take_profit,
     metadata |-> self.metadata,
     timestamp |-> IF self.timestamp # None THEN Some(isoformat(self.timestamp[1])) ELSE None,
     source |-> self.source]

\* Signal.to_dict; a key of the dict holds None, or Some of its value.
to_dict(self) ==
    [type |-> Some(SignalTypeValues[self.type]), symbol |-> self.symbol,
     confidence |-> self.confidence, price |-> self.price, quantity |-> self.quantity,
     stop_loss |-> self.stop_loss, take_profit |-> self.take_profit,
     metadata |-> self.metadata,
     timestamp |-> IF self.timestamp # None THEN Some(isoformat(self.timestamp[1])) ELSE None,
     source |-> self.source]

\* Signal.from_dict; a dict without the key "type" has type = None.
from_dict(d, now) ==
    IF d.type = None THEN Raised("KeyError")
    ELSE LET t == SignalType(d.type[1]) IN
         IF t.status # "ok" THEN t
         ELSE Signal(t.value[1], d.symbol,
                     [confidence |-> Some(d.confidence), price |-> d.price,
                      quantity |-> d.quantity, stop_loss |-> d.stop_loss,
                      take_profit |-> d.take_profit, metadata |-> d.metadata,
                      timestamp |-> IF d.timestamp # None
                                       THEN Some(fromisoformat(d.timestamp[1]))
                                       ELSE None,
                      source |-> Some(d.source)],
                     now)

\* The type tags of the dicts from outside: the six values, and others.
Tags == {SignalTypeValues[m] : m \in SignalTypes} \cup {"BUY", "long", ""}

\* Dicts that were not written by to_dict.
ForeignDicts ==
    [type : Optional(Tags), symbol : {"BTC/USDT"}, confidence : {5, 11},
     price : {None}, quantity : {None}, stop_loss : {None}, take_profit : {None},
     metadata : {None}, timestamp : {None, Some(<<1>>)}, source : {"feed"}]

\* The construction drawn is made.
Construct ==
    /\ call # None /\ signal.status = "none"
    /\ \E now \in Datetimes :
          LET c == call[1] IN
          signal' = CASE c.via = "Signal" -> Signal(c.type[1], c.symbol, c.kw, now)
                      [] c.via = "buy" -> buy(c.symbol, c.kw, now)
                      [] c.via = "sell" -> sell(c.symbol, c.kw, now)
                      [] c.via = "hold" -> hold(c.symbol, c.kw, now)
                      [] c.via = "close" -> close(c.symbol, c.kw, now)
    /\ UNCHANGED <<call, data, data_origin, restored>>
    /\ UNCHANGED <<lifevars, statvars, stop_requested>>

\* The Signal made is written to a dict.
ToDict ==
    /\ signal.status = "ok" /\ data = None
    /\ data' = Some(to_dict(signal.value[1]))
    /\ data_origin' = "to_dict"
    /\ UNCHANGED <<call, signal, restored>>
    /\ UNCHANGED <<lifevars, statvars, stop_requested>>

\* A dict arrives from outside.
ForeignDict(d) ==
    /\ call = None /\ data = None
    /\ data' = Some(d)
    /\ data_origin' = "foreign"
    /\ UNCHANGED <<call, signal, restored>>
    /\ UNCHANGED <<lifevars, statvars, stop_requested>>

\* Signal.from_dict is applied to the dict.
FromDict ==
    /\ data # None /\ restored.status = "none"
    /\ \E now \in Datetimes : restored' = from_dict(data[1], now)
    /\ UNCHANGED <<call, signal, data, data_origin>>
    /\ UNCHANGED <<lifevars, statvars, stop_requested>>

InitSignal ==
    /\ InitLifecycle /\ InitStatistics
    /\ call \in Optional(Calls)
    /\ signal = NotCalled
    /\ data = None
    /\ data_origin = "none"
    /\ restored = NotCalled

NextSignal ==
    \/ Construct
    \/ ToDict
    \/ \E d \in ForeignDicts : ForeignDict(d)
    \/ FromDict

\* The Signal functions applied to arguments drawn from the sets above.
SpecSignal == InitSignal /\ [][NextSignal]_vars

\* C15: a construction with a confidence below 0.0 or above 1.0 ends in a
\* ValueError and one with a confidence from 0.0 to 1.0, both included (or
\* with none given), returns a Signal; the same through Signal() and through
\* buy, sell, hold and close.
C15_ConfidenceValidated ==
    (call # None /\ signal.status # "none") =>
        LET given == call[1].kw.confidence IN
        /\ (given # None /\ (given[1] < 0 \/ given[1] > 10)) => signal.status = "ValueError"
        /\ (given = None \/ (given # None /\ given[1] >= 0 /\ given[1] <= 10)) =>
              (signal.status = "ok"
               /\ signal.value[1].confidence = IF given = None THEN 10 ELSE given[1])

\* C15 witness: Signal.hold with a confidence of 1.1 ended in a ValueError.
C15_Witness ==
    /\ call # None /\ call[1].via = "hold" /\ call[1].kw.confidence = Some(11)
    /\ signal.status = "ValueError"

\* C16: from_dict applied to the dict to_dict made of a Signal returns a
\* Signal equal to it in every field.
C16_RoundTrip ==
    (data_origin = "to_dict" /\ restored.status # "none") => restored = signal

\* C16 witness: a Signal built with no optional argument (amounts None,
\* metadata defaulted to empty, timestamp from the clock with microseconds)
\* came back from the round trip.
C16_Witness ==
    /\ call # None /\ call[1].kw.metadata = None /\ call[1].kw.timestamp = None
    /\ call[1].kw.price = None /\ call[1].kw.take_profit = None
    /\ data_origin = "to_dict" /\ restored.status = "ok"
    /\ restored.value[1].metadata = Some({})
    /\ restored.value[1].timestamp = Some([sec |-> 1, micro |-> 5])
    /\ restored.value[1].type = "SELL"

\* C17: is_exit_signal holds exactly for SELL, CLOSE, STOP_LOSS and
\* TAKE_PROFIT, is_entry_signal exactly for BUY, is_actionable exactly for the
\* types other than HOLD; an actionable Signal is exactly one of entry and
\* exit, and a HOLD Signal is neither.
C17_SignalClasses ==
    signal.status = "ok" =>
        LET s == signal.value[1] IN
        /\ is_exit_signal(s) <=> s.type \in {"SELL", "CLOSE", "STOP_LOSS", "TAKE_PROFIT"}
        /\ is_entry_signal(s) <=> s.type = "BUY"
        /\ is_actionable(s) <=> s.type # "HOLD"
        /\ is_actionable(s) => (is_entry_signal(s) <=> ~is_exit_signal(s))
        /\ s.type = "HOLD" => (~is_entry_signal(s) /\ ~is_exit_signal(s))

\* C17 witness: a TAKE_PROFIT Signal was made; it is actionable and an exit.
C17_Witness ==
    /\ signal.status = "ok" /\ signal.value[1].type = "TAKE_PROFIT"
    /\ is_actionable(signal.value[1]) /\ is_exit_signal(signal.value[1])
    /\ ~is_entry_signal(signal.value[1])

C23_StopOnlyAfterStart ==
    \A p \in Runs :
        (cnt[p].on_stop >= 1 \/ cnt[p].bot_stopped >= 1) => cnt[p].bot_started >= 1

\* C23 amended: within one run() call, on_stop() is invoked only after
\* on_start() was invoked and has ended, by returning or by raising, and
\* bot_stopped is emitted only after on_stop() has returned; a bot_started
\* event is not needed for either.
C23_StopFollowsStartAttempt ==
    \A p \in Runs :
        /\ cnt[p].on_stop >= 1 => (cnt[p].on_start = 1 /\ pc[p] # "on_start")
        /\ cnt[p].bot_stopped >= 1 => (cnt[p].on_stop >= 1 /\ pc[p] # "on_stop")

\* C23 witness: on_start() raised, so bot_started was never emitted, and the
\* run() call went on to on_stop() and bot_stopped and has ended.
C23_Witness ==
    \E p \in Runs :
        /\ pc[p] = "done"
        /\ cnt[p] = [on_start |-> 1, bot_started |-> 0, on_stop |-> 1, bot_stopped |-> 1]

(***************************************************************************)
(* One run() call.  SpecOneRun is the bot with a single run() call made on *)
(* it, by a caller that keeps note of its stop() calls, whenever it makes  *)
(* them: before run() is called, during a hook, during the loop, or after  *)
(* run() has ended.                                                        *)
(***************************************************************************)

\* The activation of the only run() call.
OneRun == {p \in Runs : \A q \in Runs : p <= q}

\* The steps of the one run() call.
RunSteps ==
    \/ \E p \in OneRun, su \in SetupBehaviours : run(p, su)
    \/ \E p \in OneRun, o \in Outcomes : OnStartDone(p, o)
    \/ \E p \in OneRun, o \in Outcomes : BotStartedDone(p, o)
    \/ \E p \in OneRun, o \in Outcomes : ProcessDone(p, o)
    \/ \E p \in OneRun : SleepDone(p)
    \/ \E p \in OneRun, o \in Outcomes : IterErrorDone(p, o)
    \/ \E p \in OneRun, o \in Outcomes : FatalErrorDone(p, o)
    \/ \E p \in OneRun, o \in Outcomes : OnStopDone(p, o)
    \/ \E p \in OneRun, o \in Outcomes : BotStoppedDone(p, o)

NextOneRun ==
    \/ \E su \in SetupBehaviours : InitializeCall(su)
    \/ RunSteps
    \/ stop_noted

SpecOneRun == Init /\ [][NextOneRun]_vars

\* C22 as claimed: once stop() has been called, whenever that was, the run()
\* call starts no processing step (the one in flight may complete).
C22_StopRequestLatched ==
    [][\A p \in OneRun :
          stop_requested => ~(pc[p] # "process" /\ pc'[p] = "process")
      ]_vars

(***************************************************************************)
(* SpecBot: one run() call (which initializes the bot) with stop() calls,   *)
(* and events arriving at the handlers at any moment of it: before         *)
(* initialization, during the hooks and the loop, after run() has ended.   *)
(***************************************************************************)

\* Events delivered to the handlers in one behaviour of SpecBot.
MaxBotEvents == 2

NextBot ==
    \/ RunSteps
    \/ stop
    \/ /\ events < MaxBotEvents
       /\ \E order \in OrderPayloads : handle_order_filled(order)
    \/ \E o \in Outcomes : OnOrderFilledDone(o)
    \/ /\ events < MaxBotEvents
       /\ \E position \in PositionPayloads : handle_position_opened(position)
    \/ /\ events < MaxBotEvents
       /\ \E position \in PositionPayloads : handle_position_closed(position)

SpecBot == Init /\ [][NextBot]_vars

\* C24: total_trades, winning_trades and losing_trades are never negative and
\* no step lowers them; winning_trades + losing_trades is the number of
\* position_closed events handled that carried a position, and each such
\* event adds 1 to that sum, whether or not its symbol was in the mapping and
\* whatever the bot's lifecycle was when it arrived.
C24_CountersMonotone ==
    [][/\ total_trades' >= total_trades /\ total_trades' >= 0
       /\ winning_trades' >= winning_trades /\ winning_trades' >= 0
       /\ losing_trades' >= losing_trades /\ losing_trades' >= 0
       /\ winning_trades' + losing_trades' = Len(closed')
       /\ (events' # events /\ last_event'.name = "position_closed"
              /\ last_event'.payload # None)
          => winning_trades' + losing_trades' = winning_trades + losing_trades + 1
      ]_vars

\* C24 witness: the run() call has looped and ended after a stop(); a
\* position_closed event with a position whose symbol is not in the mapping
\* arrived at the stopped bot, the second such event counted, and an order
\* was counted during the run.
C24_Witness ==
    \E p \in OneRun :
        /\ pc[p] = "done" /\ result[p] = "returned" /\ iterations >= 1
        /\ last_event.name = "position_closed" /\ last_event.payload # None
        /\ last_event.initialized /\ ~last_event.running
        /\ ~has_position(positions, last_event.payload[1].symbol)
        /\ Len(closed) = 1 /\ winning_trades = 1 /\ losing_trades = 0
        /\ total_trades = 1

\* C21: an error event with an error invokes on_error() once, with that
\* error, and nothing else; an order_filled event with an order invokes
\* on_order_filled() once, with that order; an event without its payload
\* invokes no hook and changes no statistic; the position events invoke no
\* hook.
C21_EventsReachHooks ==
    [][events' # events =>
          LET e == last_event' IN
          /\ e.payload = None =>
                /\ hook_log' = hook_log /\ order_hooks' = order_hooks
                /\ positions' = positions /\ total_trades' = total_trades
                /\ winning_trades' = winning_trades /\ losing_trades' = losing_trades
                /\ total_pnl' = total_pnl
          /\ (e.name = "error" /\ e.payload # None) =>
                hook_log' = Append(hook_log, [hook |-> "on_error", arg |-> e.payload[1]])
          /\ (e.name = "order_filled" /\ e.payload # None) =>
                hook_log' = Append(hook_log, [hook |-> "on_order_filled", arg |-> e.payload[1]])
          /\ e.name \in {"position_opened", "position_closed"} => hook_log' = hook_log
      ]_vars

\* C21 witness: an order_filled event and an error event, each with its
\* payload, invoked their hooks once each, and an error event without a
\* payload arrived after them and invoked nothing.
C21_Witness ==
    /\ events = 3
    /\ hook_log = <<[hook |-> "on_order_filled", arg |-> "order"],
                    [hook |-> "on_error", arg |-> "exc"]>>
    /\ last_event.name = "error" /\ last_event.payload = None

====
